---- MODULE Spec2Model ----
(***************************************************************************)
(* NanoPlot (src/nanoplot/NanoPlot.py): main(), filter_data(), make_plots() *)
(* and make_report() as a state machine.  The record table is a DataFrame:  *)
(* a set of column names and a function from row labels to rows.  The       *)
(* external collaborators (nanoget, nanomath, nanoplotter, pandas.sample)   *)
(* are nondeterministic choices over what they can return.                  *)
(***************************************************************************)
EXTENDS Integers, Sequences, FiniteSets, TLC

VARIABLES pc, settings, datadf, plots, files, calls, barcodes, statsfile

vars == <<pc, settings, datadf, plots, files, calls, barcodes, statsfile>>

(***************************************************************************)
(* Bounds of the model.                                                     *)
(***************************************************************************)
\* The largest number of reads in a loaded table.
MaxRows == 2

\* The largest number of distinct barcode values in a loaded table.
MaxBarcodes == 2

(***************************************************************************)
(* Python values.  An optional integer option (argparse type=int, default   *)
(* None) is the empty set when absent and {n} when given.                   *)
(***************************************************************************)
None == {}

Some(n) == {n}

Val(o) == CHOOSE n \in o : TRUE

\* Python truth value of an optional integer: None and 0 are false.
Truthy(o) == o # None /\ o # Some(0)

Min(a, b) == IF a <= b THEN a ELSE b

Digit(d) ==
  CASE d = 0 -> "0" [] d = 1 -> "1" [] d = 2 -> "2" [] d = 3 -> "3"
    [] d = 4 -> "4" [] d = 5 -> "5" [] d = 6 -> "6" [] d = 7 -> "7"
    [] d = 8 -> "8" [] d = 9 -> "9"

RECURSIVE Str(_)
\* str(n) of an int.
Str(n) ==
  IF n < 0 THEN "-" \o Str(0 - n)
  ELSE IF n < 10 THEN Digit(n)
  ELSE Str(n \div 10) \o Digit(n % 10)

RECURSIVE Join(_)
\* ''.join(list)
Join(list) == IF list = <<>> THEN "" ELSE Head(list) \o Join(Tail(list))

RECURSIVE Log10(_)
\* np.log10 of a read length, to its integer part.
Log10(n) == IF n < 10 THEN 0 ELSE 1 + Log10(n \div 10)

\* path.join(outdir, name) for a relative name.
PathJoin(outdir, name) == outdir \o "/" \o name

(***************************************************************************)
(* DataFrames.                                                              *)
(***************************************************************************)
\* len(datadf)
NumReads(df) == Cardinality(DOMAIN df.data)

\* "c in datadf"
HasColumn(df, c) == c \in df.cols

\* datadf[mask]: the rows whose label is in keep.
Rows(df, keep) == [df EXCEPT !.data = [i \in keep |-> df.data[i]]]

\* The columns a loaded table can carry (spec section 3 of the data model).
Columns ==
  {"lengths", "aligned_lengths", "quals", "aligned_quals", "channelIDs",
   "start_time", "mapQ", "percentIdentity", "barcode"}

\* Read lengths: below and at the maximum length used in the model.
LengthValues == {2500, 5000}

\* Average basecall qualities, at and around the minimum qualities used.
QualValues == {0, 1, 2}

BarcodeName(k) == "BC0" \o Str(k)

BarcodeValues == {BarcodeName(k) : k \in 1..MaxBarcodes}

\* The values a column takes, for read lengths in lens and qualities in
\* quals; the columns the program only tests for presence carry one value.
ColumnValues(c, lens, quals) ==
  CASE c = "lengths" -> lens
    [] c = "aligned_lengths" -> lens
    [] c = "quals" -> quals
    [] c = "barcode" -> BarcodeValues
    [] OTHER -> {0}

\* The rows over the columns cols; an aligned length never exceeds the
\* sequenced length.
RowsOver(cols, lens, quals) ==
  LET full == [c \in Columns |->
                 IF c \in cols THEN ColumnValues(c, lens, quals) ELSE {0}]
      all  == [lengths : full["lengths"], aligned_lengths : full["aligned_lengths"],
               quals : full["quals"], aligned_quals : full["aligned_quals"],
               channelIDs : full["channelIDs"], start_time : full["start_time"],
               mapQ : full["mapQ"], percentIdentity : full["percentIdentity"],
               barcode : full["barcode"]]
  IN  {[c \in cols |-> r[c]] :
         r \in {q \in all : "aligned_lengths" \in cols => q.aligned_lengths <= q.lengths}}

\* Orders the rows of a table by their numeric columns.
RowKey(r) ==
  (IF "lengths" \in DOMAIN r THEN 4 * r["lengths"] ELSE 0)
  + (IF "aligned_lengths" \in DOMAIN r THEN 2 * r["aligned_lengths"] ELSE 0)
  + (IF "quals" \in DOMAIN r THEN r["quals"] ELSE 0)

\* The tables with the columns cols and at most MaxRows reads.  The program
\* never reads a row label, so one labelling stands for all of them: the
\* labels 1..n follow the order of the rows' values.
Tables(cols, lens, quals) ==
  UNION {{[cols |-> cols, data |-> d] :
            d \in {e \in [1..n -> RowsOver(cols, lens, quals)] :
                     \A i \in 1..(n - 1) : RowKey(e[i]) <= RowKey(e[i + 1])}} :
           n \in 0..MaxRows}

(***************************************************************************)
(* Settings: vars(args) of get_args, plus the fields filter_data derives.   *)
(***************************************************************************)
SourceNames == {"fastq", "bam", "fastq_rich", "fastq_minimal", "summary"}

\* settings["bam"]: the --bam file list, None unless --bam is the source.
SettingsBam(s) == s.source = "bam"

\* The settings of a run, before filter_data: sources, filter options o.
NewSettings(source, o, barcoded, store, raw, prefix) ==
  [source |-> source, alength |-> o.alength, drop_outliers |-> o.drop_outliers,
   maxlength |-> o.maxlength, minqual |-> o.minqual, loglength |-> o.loglength,
   downsample |-> o.downsample, barcoded |-> barcoded, store |-> store, raw |-> raw,
   outdir |-> ".", prefix |-> prefix, path |-> PathJoin(".", prefix), title |-> "",
   lengths_pointer |-> "", logBool |-> FALSE, length_prefix |-> ""]

(***************************************************************************)
(* filter_data.  Each step maps a frame [df, s, length_prefix_list, err]:   *)
(* the table, the settings, the local prefix list and whether an exception  *)
(* was raised.                                                              *)
(***************************************************************************)
Raise(f) == [f EXCEPT !.err = TRUE]

\* A prefix list that grows at the front.
InsertToken(f, token) ==
  [f EXCEPT !.length_prefix_list = <<token>> \o f.length_prefix_list]

\* length_prefix_list.append(token)
AppendToken(f, token) ==
  [f EXCEPT !.length_prefix_list = Append(f.length_prefix_list, token)]

\* A length selection that tests the table's columns, not settings["bam"].
SelectLengthsByColumn(f) ==
  IF f.s.alength /\ HasColumn(f.df, "aligned_lengths")
  THEN AppendToken([f EXCEPT !.s.lengths_pointer = "aligned_lengths"], "Aligned_")
  ELSE [f EXCEPT !.s.lengths_pointer = "lengths"]

\* Lines 243-249: aligned or sequenced length.
SelectLengths(f) ==
  IF f.s.alength /\ SettingsBam(f.s)
  THEN AppendToken([f EXCEPT !.s.lengths_pointer = "aligned_lengths"], "Aligned_")
  ELSE [f EXCEPT !.s.lengths_pointer = "lengths"]

\* nanomath.remove_length_outliers(df, columnname): the rows whose length is
\* below a cutoff the statistic chooses.
RemoveLengthOutliers(df, columnname, cut) ==
  Rows(df, {i \in DOMAIN df.data : df.data[i][columnname] < cut})

\* Lines 250-256.
DropOutliers(f, cut) ==
  IF f.err \/ ~f.s.drop_outliers THEN f
  ELSE IF ~HasColumn(f.df, f.s.lengths_pointer) THEN Raise(f)
  ELSE AppendToken([f EXCEPT !.df = RemoveLengthOutliers(f.df, f.s.lengths_pointer, cut)],
                   "OutliersRemoved_")

\* Lines 257-264.
MaxLength(f) ==
  IF f.err \/ ~Truthy(f.s.maxlength) THEN f
  ELSE IF ~HasColumn(f.df, f.s.lengths_pointer) THEN Raise(f)
  ELSE AppendToken(
         [f EXCEPT !.df = Rows(f.df, {i \in DOMAIN f.df.data :
                                       f.df.data[i][f.s.lengths_pointer] < Val(f.s.maxlength)})],
         "MaxLength-" \o Str(Val(f.s.maxlength)) \o "_")

\* Lines 265-271.
MinQual(f) ==
  IF f.err \/ ~Truthy(f.s.minqual) THEN f
  ELSE IF ~HasColumn(f.df, "quals") THEN Raise(f)
  ELSE [f EXCEPT
          !.df = Rows(f.df, {i \in DOMAIN f.df.data :
                               f.df.data[i]["quals"] > Val(f.s.minqual)})]

\* A log transform that derives its column whether or not it is requested.
LogLengthAlways(f) ==
  IF f.err THEN f
  ELSE IF ~HasColumn(f.df, f.s.lengths_pointer) THEN Raise(f)
  ELSE LET old == f.s.lengths_pointer
           new == "log_" \o old
       IN  AppendToken(
             [f EXCEPT
                !.df = [cols |-> f.df.cols \cup {new},
                        data |-> [i \in DOMAIN f.df.data |->
                                    [c \in f.df.cols \cup {new} |->
                                       IF c = new THEN Log10(f.df.data[i][old])
                                       ELSE f.df.data[i][c]]]],
                !.s.lengths_pointer = new, !.s.logBool = TRUE],
             "Log_")

\* Lines 272-279.
LogLength(f) ==
  IF f.err THEN f
  ELSE IF ~f.s.loglength THEN [f EXCEPT !.s.logBool = FALSE]
  ELSE IF ~HasColumn(f.df, f.s.lengths_pointer) THEN Raise(f)
  ELSE LET old == f.s.lengths_pointer
           new == "log_" \o old
       IN  AppendToken(
             [f EXCEPT
                !.df = [cols |-> f.df.cols \cup {new},
                        data |-> [i \in DOMAIN f.df.data |->
                                    [c \in f.df.cols \cup {new} |->
                                       IF c = new THEN Log10(f.df.data[i][old])
                                       ELSE f.df.data[i][c]]]],
                !.s.lengths_pointer = new, !.s.logBool = TRUE],
             "Log_")

\* Line 281.
NewSize(f) == Min(Val(f.s.downsample), NumReads(f.df))

\* Lines 280-285: datadf.sample(new_size) returns the rows pick, any new_size
\* of the rows; a negative size raises ValueError.
Downsample(f, pick) ==
  IF f.err \/ ~Truthy(f.s.downsample) THEN f
  ELSE IF NewSize(f) < 0 THEN Raise(f)
  ELSE AppendToken([f EXCEPT !.df = Rows(f.df, pick)], "Downsampled_")

\* filter_data up to line 279: everything before the downsampling.
BeforeDownsample(df, s, cut) ==
  LogLength(MinQual(MaxLength(DropOutliers(
    SelectLengths([df |-> df, s |-> s, length_prefix_list |-> <<>>, err |-> FALSE]),
    cut))))

\* The samples datadf.sample(new_size) can draw from the frame f.
Samples(f) ==
  IF f.err \/ ~Truthy(f.s.downsample) \/ NewSize(f) < 0 THEN {{}}
  ELSE {pick \in SUBSET DOMAIN f.df.data : Cardinality(pick) = NewSize(f)}

\* Lines 286-288: settings["length_prefix"] = ''.join(length_prefix_list).
Finish(f) ==
  IF f.err THEN f ELSE [f EXCEPT !.s.length_prefix = Join(f.length_prefix_list)]

\* The cutoffs remove_length_outliers can apply: it removes the reads from
\* some length on, or none.
OutlierCuts == LengthValues \cup {10000}

\* filter_data(datadf, settings): every frame it can end in, over the outlier
\* cutoff and the sample the collaborators choose.
FilterData(df, s) ==
  UNION {LET pre == BeforeDownsample(df, s, cut)
         IN  {Finish(Downsample(pre, pick)) : pick \in Samples(pre)} :
           cut \in IF s.drop_outliers THEN OutlierCuts ELSE {10000}}

(***************************************************************************)
(* make_plots.  A call of a nanoplotter function has the path it is given,  *)
(* the columns it reads and the title; it returns a plot artifact and       *)
(* writes its files under the path.                                         *)
(***************************************************************************)
PlotCall(func, name, path, uses, s) ==
  [func |-> func, name |-> name, path |-> path, uses |-> uses, title |-> s.title]

\* Lines 361-386: the two mapping-quality scatters.
MapQCalls(df, s) ==
  IF HasColumn(df, "maqpQ")
  THEN <<PlotCall("scatter", "MappingQualityvsAverageBaseQuality",
                  s.path \o "MappingQualityvsAverageBaseQuality", {"mapQ", "quals"}, s),
         PlotCall("scatter", "MappingQualityvsReadLength",
                  s.path \o s.length_prefix \o "MappingQualityvsReadLength",
                  {s.lengths_pointer, "mapQ"}, s)>>
  ELSE <<>>

\* Lines 298-417: the calls make_plots makes on the table df, in order.
DispatchedCalls(df, s) ==
  <<PlotCall("length_plots", "Read length", s.path, {"lengths"}, s)>>
  \o (IF HasColumn(df, "quals")
      THEN <<PlotCall("scatter", "LengthvsQualityScatterPlot",
                      s.path \o s.length_prefix \o "LengthvsQualityScatterPlot",
                      {s.lengths_pointer, "quals"}, s)>>
      ELSE <<>>)
  \o (IF HasColumn(df, "channelIDs")
      THEN <<PlotCall("spatial_heatmap", "ActivityMap_ReadsPerChannel",
                      s.path \o "ActivityMap_ReadsPerChannel", {"channelIDs"}, s)>>
      ELSE <<>>)
  \o (IF HasColumn(df, "start_time")
      THEN <<PlotCall("time_plots", "time_plots", s.path, {"start_time"}, s)>>
      ELSE <<>>)
  \o (IF HasColumn(df, "aligned_lengths") /\ HasColumn(df, "lengths")
      THEN <<PlotCall("scatter", "AlignedReadlengthvsSequencedReadLength",
                      s.path \o "AlignedReadlengthvsSequencedReadLength",
                      {"aligned_lengths", "lengths"}, s)>>
      ELSE <<>>)
  \o MapQCalls(df, s)
  \o (IF HasColumn(df, "percentIdentity")
      THEN <<PlotCall("scatter", "PercentIdentityvsAverageBaseQuality",
                      s.path \o "PercentIdentityvsAverageBaseQuality",
                      {"percentIdentity", "aligned_quals"}, s),
             PlotCall("scatter", "PercentIdentityvsAlignedReadLength",
                      s.path \o "PercentIdentityvsAlignedReadLength",
                      {s.lengths_pointer, "percentIdentity"}, s)>>
      ELSE <<>>)

\* The names of the calls make_plots can make.
PlotNames ==
  {"Read length", "LengthvsQualityScatterPlot", "ActivityMap_ReadsPerChannel",
   "time_plots", "AlignedReadlengthvsSequencedReadLength",
   "MappingQualityvsAverageBaseQuality", "MappingQualityvsReadLength",
   "PercentIdentityvsAverageBaseQuality", "PercentIdentityvsAlignedReadLength"}

\* What the rendering collaborator can do in one make_plots: every call
\* succeeds, or the call of one name fails.
Failures == {{}} \cup {{n} : n \in PlotNames}

\* A call raises when it reads a column the table lacks (KeyError) or when
\* its rendering fails.
CallRaises(c, df, fail) == ~(c.uses \subseteq df.cols) \/ c.name \in fail

\* The plot artifact a call returns.
Artifact(c) == [func |-> c.func, name |-> c.name, path |-> c.path, title |-> c.title]

\* The file a writer leaves under a path.
File(writer, path) == [writer |-> writer, path |-> path]

\* make_plots with every call guarded on its own: a call that raises is
\* skipped and the others are returned.
MakePlotsGuarded(df, s, fail) ==
  LET cs   == DispatchedCalls(df, s)
      good == SelectSeq(cs, LAMBDA c : ~CallRaises(c, df, fail))
  IN  [err |-> FALSE, raised |-> "",
       plots |-> [i \in 1..Len(good) |-> Artifact(good[i])],
       written |-> {File(good[i].func, good[i].path) : i \in 1..Len(good)}]

\* make_plots(datadf, settings) when the calls in fail fail: the calls run one
\* after another, unguarded; the first that raises ends make_plots, which
\* then returns nothing.  written: the files of the calls that completed.
MakePlots(df, s, fail) ==
  LET cs  == DispatchedCalls(df, s)
      bad == {i \in 1..Len(cs) : CallRaises(cs[i], df, fail)}
      k   == IF bad = {} THEN Len(cs) + 1 ELSE CHOOSE i \in bad : \A j \in bad : i <= j
  IN  [err |-> bad # {},
       raised |-> IF bad = {} THEN "" ELSE cs[k].name,
       plots |-> IF bad = {} THEN [i \in 1..Len(cs) |-> Artifact(cs[i])] ELSE <<>>,
       written |-> {File(cs[i].func, cs[i].path) : i \in 1..(k - 1)}]

(***************************************************************************)
(* main.  calls is the log of the run: each call main makes, with the names *)
(* and the rows of the tables it hands over.                                *)
(***************************************************************************)
Call(op, names, datadfs) == [op |-> op, names |-> names, datadfs |-> datadfs]

\* filter_data returns: main rebinds datadf and settings.
FilterDataReturns ==
  /\ pc = "filter_data"
  /\ \E r \in FilterData(datadf, settings) :
       /\ ~r.err
       /\ datadf' = r.df
       /\ settings' = r.s
  /\ pc' = "filtered"
  /\ calls' = Append(calls, Call("filter_data", <<>>, <<DOMAIN datadf.data>>))
  /\ UNCHANGED <<plots, files, barcodes, statsfile>>

\* filter_data raises (a missing column, a negative sample size): the
\* settings dict keeps what was assigned in place, main's handler re-raises.
FilterDataRaises ==
  /\ pc = "filter_data"
  /\ \E r \in FilterData(datadf, settings) :
       /\ r.err
       /\ settings' = r.s
  /\ pc' = "crashed"
  /\ calls' = Append(calls, Call("filter_data", <<>>, <<DOMAIN datadf.data>>))
  /\ UNCHANGED <<datadf, plots, files, barcodes, statsfile>>

\* Line 83 and 42: settings["path"] of the run.
RunPath(s) == PathJoin(s.outdir, s.prefix)

\* The path of the run for every barcode.
BarcodePathShared(s, barc) == PathJoin(s.outdir, s.prefix)

\* Line 77: settings["path"] of a barcode.
BarcodePath(s, barc) == PathJoin(s.outdir, s.prefix \o barc \o "_")

\* The whole table for every barcode.
BarcodeSliceAll(df, barc) == df

\* Line 78 and 71: datadf[datadf["barcode"] == barc].
BarcodeSlice(df, barc) == Rows(df, {i \in DOMAIN df.data : df.data[i]["barcode"] = barc})

\* Line 68: the orders datadf["barcode"].unique() can list the barcodes in
\* (the order of first appearance, which the sample shuffles).
UniqueBarcodes(df) ==
  LET vals == {df.data[i]["barcode"] : i \in DOMAIN df.data}
  IN  {q \in [1..Cardinality(vals) -> vals] : \A i, j \in DOMAIN q : q[i] = q[j] => i = j}

\* The tables get_input or pickle.load can return (spec section 3): reads of
\* one length with a quality; a summary carries channel and time, and the
\* barcode when barcoded is set; a pickle is any stored table.
MainColumnSets(s) ==
  LET plain   == {"lengths", "quals"}
      summary == {"lengths", "quals", "channelIDs", "start_time"}
  IN  IF s.source = "pickle"
      THEN {{"lengths"}, plain, summary, summary \cup {"barcode"}}
      ELSE IF s.source = "summary"
      THEN {IF s.barcoded THEN summary \cup {"barcode"} ELSE summary}
      ELSE {plain}

MainTables(s) == UNION {Tables(cols, {2500}, {1, 2}) : cols \in MainColumnSets(s)}

\* Lines 45-60: load the table, store it and dump it when asked.
GetInput ==
  /\ pc = "get_input"
  /\ datadf' \in MainTables(settings)
  /\ files' = files
       \cup (IF settings.store
             THEN {File("pickle.dump", settings.path \o "NanoPlot-data.pickle")} ELSE {})
       \cup (IF settings.raw THEN {File("to_csv", "NanoPlot-data.tsv.gz")} ELSE {})
  /\ calls' = Append(calls, Call(IF settings.source = "pickle" THEN "pickle.load"
                                 ELSE "get_input", <<>>, <<DOMAIN datadf'.data>>))
  /\ pc' = "write_stats"
  /\ UNCHANGED <<settings, plots, barcodes, statsfile>>

\* Lines 61-65: the statistics of the loaded table.
WriteStats ==
  /\ pc = "write_stats"
  /\ statsfile' = settings.path \o "NanoStats.txt"
  /\ files' = files \cup {File("write_stats", statsfile')}
  /\ calls' = Append(calls, Call("write_stats", <<>>, <<DOMAIN datadf.data>>))
  /\ pc' = "filter_data"
  /\ UNCHANGED <<settings, datadf, plots, barcodes>>

\* Lines 84-85: the plots of the whole table.
MakePlotsReturns ==
  /\ pc = "filtered" /\ ~settings.barcoded
  /\ \E fail \in Failures :
       LET r == MakePlots(datadf, settings, fail)
       IN  /\ ~r.err
           /\ plots' = r.plots
           /\ files' = files \cup r.written
  /\ calls' = Append(calls, Call("make_plots", <<>>, <<DOMAIN datadf.data>>))
  /\ pc' = "make_report"
  /\ UNCHANGED <<settings, datadf, barcodes, statsfile>>

\* Lines 84-85 and 88-94: a call of make_plots raises, main logs the error
\* and re-raises.
MakePlotsRaises ==
  /\ pc = "filtered" /\ ~settings.barcoded
  /\ \E fail \in Failures :
       LET r == MakePlots(datadf, settings, fail)
       IN  /\ r.err
           /\ files' = files \cup r.written
           /\ calls' = calls \o <<Call("make_plots", <<>>, <<DOMAIN datadf.data>>),
                                  Call("error", <<r.raised>>, <<>>)>>
  /\ pc' = "crashed"
  /\ UNCHANGED <<settings, datadf, plots, barcodes, statsfile>>

\* Lines 67-74: the barcodes of the filtered table and their statistics file.
BarcodeStats ==
  /\ pc = "filtered" /\ settings.barcoded /\ HasColumn(datadf, "barcode")
  /\ barcodes' \in UniqueBarcodes(datadf)
  /\ statsfile' = settings.path \o "NanoStats_barcoded.txt"
  /\ files' = files \cup {File("write_stats", statsfile')}
  /\ calls' = Append(calls, Call("write_stats", barcodes',
                                 [k \in DOMAIN barcodes' |->
                                    DOMAIN BarcodeSlice(datadf, barcodes'[k]).data]))
  /\ plots' = <<>>
  /\ pc' = "barcode_loop"
  /\ UNCHANGED <<settings, datadf>>

\* Line 68: the table has no barcode column (KeyError).
BarcodeStatsRaises ==
  /\ pc = "filtered" /\ settings.barcoded /\ ~HasColumn(datadf, "barcode")
  /\ calls' = Append(calls, Call("error", <<"barcode">>, <<>>))
  /\ pc' = "crashed"
  /\ UNCHANGED <<settings, datadf, plots, files, barcodes, statsfile>>

\* Lines 75-82: one iteration of the barcode loop.
BarcodePlotsReturns ==
  /\ pc = "barcode_loop" /\ barcodes # <<>>
  /\ LET barc   == Head(barcodes)
         s      == [settings EXCEPT !.path = BarcodePath(settings, barc), !.title = barc]
         dfbarc == BarcodeSlice(datadf, barc)
     IN  /\ settings' = s
         /\ \E fail \in Failures :
              LET r == MakePlots(dfbarc, s, fail)
              IN  /\ ~r.err
                  /\ plots' = plots \o r.plots
                  /\ files' = files \cup r.written
         /\ calls' = Append(calls, Call("make_plots", <<barc>>, <<DOMAIN dfbarc.data>>))
  /\ barcodes' = Tail(barcodes)
  /\ UNCHANGED <<pc, datadf, statsfile>>

\* Lines 75-82 and 88-94: make_plots raises in the loop.
BarcodePlotsRaises ==
  /\ pc = "barcode_loop" /\ barcodes # <<>>
  /\ LET barc   == Head(barcodes)
         s      == [settings EXCEPT !.path = BarcodePath(settings, barc), !.title = barc]
         dfbarc == BarcodeSlice(datadf, barc)
     IN  /\ settings' = s
         /\ \E fail \in Failures :
              LET r == MakePlots(dfbarc, s, fail)
              IN  /\ r.err
                  /\ files' = files \cup r.written
                  /\ calls' = calls \o <<Call("make_plots", <<barc>>, <<DOMAIN dfbarc.data>>),
                                         Call("error", <<r.raised>>, <<>>)>>
  /\ pc' = "crashed"
  /\ UNCHANGED <<datadf, plots, barcodes, statsfile>>

\* Line 83: the loop is over.
BarcodeLoopEnd ==
  /\ pc = "barcode_loop" /\ barcodes = <<>>
  /\ settings' = [settings EXCEPT !.path = RunPath(settings)]
  /\ pc' = "make_report"
  /\ UNCHANGED <<datadf, plots, files, calls, barcodes, statsfile>>

\* Lines 86-87 and 421-483: the html report.
MakeReport ==
  /\ pc = "make_report"
  /\ files' = files \cup {File("make_report", settings.path \o "NanoPlot-report.html")}
  /\ calls' = Append(calls, Call("make_report", <<>>, <<>>))
  /\ pc' = "done"
  /\ UNCHANGED <<settings, datadf, plots, barcodes, statsfile>>

\* The filter options of the runs of main.
MainFilterOptions ==
  [alength : {FALSE}, drop_outliers : {FALSE}, maxlength : {None},
   minqual : {None, Some(1)}, loglength : BOOLEAN, downsample : {None, Some(1)}]

\* Lines 36-42: the parsed arguments.
Init ==
  /\ pc = "get_input"
  /\ \E source \in {"fastq", "summary", "pickle"}, o \in MainFilterOptions,
        barcoded \in BOOLEAN, store \in BOOLEAN, raw \in BOOLEAN :
       settings = NewSettings(source, o, barcoded, store, raw, "")
  /\ datadf = [cols |-> {}, data |-> <<>>]
  /\ plots = <<>>
  /\ files = {}
  /\ calls = <<>>
  /\ barcodes = <<>>
  /\ statsfile = ""

Next ==
  \/ GetInput
  \/ WriteStats
  \/ FilterDataReturns
  \/ FilterDataRaises
  \/ MakePlotsReturns
  \/ MakePlotsRaises
  \/ BarcodeStats
  \/ BarcodeStatsRaises
  \/ BarcodePlotsReturns
  \/ BarcodePlotsRaises
  \/ BarcodeLoopEnd
  \/ MakeReport

Spec == Init /\ [][Next]_vars

(***************************************************************************)
(* filter_data on its own: every combination of the filter options on       *)
(* every table of a bam source or of a pickle.                              *)
(***************************************************************************)
FilterOptions ==
  [alength : BOOLEAN, drop_outliers : BOOLEAN,
   maxlength : {None, Some(0), Some(5000)},
   minqual : {None, Some(0), Some(1)},
   loglength : BOOLEAN,
   downsample : {None, Some(0 - 1), Some(0), Some(1), Some(2)}]

\* The column sets of the tables filter_data is given: a bam table carries
\* the aligned lengths.
FilterColumnSets(source) ==
  {{"lengths"} \cup x : x \in
     IF source = "bam" THEN {{"aligned_lengths"}, {"aligned_lengths", "quals"}}
     ELSE SUBSET {"aligned_lengths", "quals"}}

InitFilter ==
  /\ pc = "filter_data"
  /\ \E source \in {"bam", "pickle"}, o \in FilterOptions :
       /\ settings = NewSettings(source, o, FALSE, FALSE, FALSE, "")
       /\ \E cols \in FilterColumnSets(source) : datadf \in Tables(cols, LengthValues, QualValues)
  /\ plots = <<>>
  /\ files = {}
  /\ calls = <<>>
  /\ barcodes = <<>>
  /\ statsfile = ""

NextFilter == FilterDataReturns \/ FilterDataRaises

SpecFilter == InitFilter /\ [][NextFilter]_vars

(***************************************************************************)
(* make_plots on its own: every set of optional columns, on a table with    *)
(* reads, as filter_data returns it.                                        *)
(***************************************************************************)
PlotColumnSets == {{"lengths"} \cup x : x \in SUBSET (Columns \ {"lengths", "barcode"})}

PlotFilterOptions ==
  [alength : BOOLEAN, drop_outliers : {FALSE}, maxlength : {None}, minqual : {None},
   loglength : BOOLEAN, downsample : {None}]

InitPlots ==
  /\ pc = "filtered"
  /\ \E source \in {"bam", "pickle"}, o \in PlotFilterOptions, cols \in PlotColumnSets :
       /\ source = "bam" => "aligned_lengths" \in cols
       /\ \E df \in {d \in Tables(cols, {2500}, {1}) : NumReads(d) > 0} :
            \E r \in FilterData(df, NewSettings(source, o, FALSE, FALSE, FALSE, "")) :
              /\ ~r.err
              /\ settings = r.s
              /\ datadf = r.df
  /\ plots = <<>>
  /\ files = {}
  /\ calls = <<>>
  /\ barcodes = <<>>
  /\ statsfile = ""

NextPlots == MakePlotsReturns \/ MakePlotsRaises

SpecPlots == InitPlots /\ [][NextPlots]_vars

(***************************************************************************)
(* Claims about filter_data.                                                *)
(***************************************************************************)
\* The length column filter_data selected, before the log transform.
SelectedLengths(s) ==
  IF s.lengths_pointer \in {"aligned_lengths", "log_aligned_lengths"}
  THEN "aligned_lengths" ELSE "lengths"

\* C2: whenever a maximum length is set, every row filter_data returns has an
\* untransformed selected length strictly below it, with or without the log
\* transform.
C2_MaxLengthBelowThreshold ==
  (pc = "filtered" /\ settings.maxlength # None)
    => \A i \in DOMAIN datadf.data :
         datadf.data[i][SelectedLengths(settings)] < Val(settings.maxlength)

\* C3: whenever a minimum quality is set (0 included), filter_data keeps
\* exactly the rows whose quals is strictly greater: every returned row is
\* above the threshold, and with no other row filter the returned rows are
\* all the rows above it.
C3_MinQualStrict ==
  [][(pc = "filter_data" /\ pc' = "filtered" /\ settings.minqual # None
      /\ HasColumn(datadf, "quals"))
       => /\ \A i \in DOMAIN datadf'.data :
               datadf'.data[i]["quals"] > Val(settings.minqual)
          /\ (~settings.drop_outliers /\ settings.maxlength = None
               /\ settings.downsample = None)
               => DOMAIN datadf'.data =
                    {i \in DOMAIN datadf.data :
                       datadf.data[i]["quals"] > Val(settings.minqual)}]_vars

\* C4: for any requested downsample size N and R rows left by the preceding
\* steps, filter_data returns min(N, R) rows, each a row of the table before
\* the downsampling.
C4_DownsampleSize ==
  [][(pc = "filter_data" /\ pc' = "filtered" /\ settings.downsample # None)
       => \E cut \in OutlierCuts :
            LET pre == BeforeDownsample(datadf, settings, cut)
            IN  /\ ~pre.err
                /\ NumReads(datadf') = Min(Val(settings.downsample), NumReads(pre.df))
                /\ DOMAIN datadf'.data \subseteq DOMAIN pre.df.data
                /\ \A i \in DOMAIN datadf'.data : datadf'.data[i] = pre.df.data[i]]_vars

\* C5: the prefix is the tokens of the applied steps in pipeline order
\* (Aligned_, OutliersRemoved_, MaxLength-N_, Log_, Downsampled_), and outlier
\* removal, max-length 5000 and log transform alone give
\* OutliersRemoved_MaxLength-5000_Log_.
C5_PrefixInPipelineOrder ==
  pc = "filtered" =>
    /\ settings.length_prefix =
         (IF settings.alength /\ SettingsBam(settings) THEN "Aligned_" ELSE "")
         \o (IF settings.drop_outliers THEN "OutliersRemoved_" ELSE "")
         \o (IF Truthy(settings.maxlength)
             THEN "MaxLength-" \o Str(Val(settings.maxlength)) \o "_" ELSE "")
         \o (IF settings.loglength THEN "Log_" ELSE "")
         \o (IF Truthy(settings.downsample) THEN "Downsampled_" ELSE "")
    /\ (settings.drop_outliers /\ settings.maxlength = Some(5000) /\ settings.loglength
         /\ ~settings.alength /\ settings.minqual = None /\ settings.downsample = None)
         => settings.length_prefix = "OutliersRemoved_MaxLength-5000_Log_"

\* C5 witness: a run with exactly outlier removal, max-length 5000 and the log
\* transform has returned.
C5_Witness ==
  /\ pc = "filtered"
  /\ settings.drop_outliers /\ settings.maxlength = Some(5000) /\ settings.loglength
  /\ ~settings.alength /\ settings.minqual = None /\ settings.downsample = None
  /\ NumReads(datadf) > 0

\* C6: every applied step appends its own token, so a run with the
\* minimum-quality cutoff applied has a different prefix from the same run
\* without it.
C6_MinQualChangesPrefix ==
  [][(pc = "filter_data" /\ pc' = "filtered" /\ Truthy(settings.minqual))
       => \A r \in FilterData(datadf, [settings EXCEPT !.minqual = None]) :
            ~r.err => r.s.length_prefix # settings'.length_prefix]_vars

(***************************************************************************)
(* Claims about make_plots.                                                 *)
(***************************************************************************)
\* The plot set of the dispatch table for the columns cols.
ExpectedPlots(cols) ==
  {"Read length"}
  \cup (IF "quals" \in cols THEN {"LengthvsQualityScatterPlot"} ELSE {})
  \cup (IF "channelIDs" \in cols THEN {"ActivityMap_ReadsPerChannel"} ELSE {})
  \cup (IF "start_time" \in cols THEN {"time_plots"} ELSE {})
  \cup (IF "aligned_lengths" \in cols /\ "lengths" \in cols
        THEN {"AlignedReadlengthvsSequencedReadLength"} ELSE {})
  \cup (IF "mapQ" \in cols
        THEN {"MappingQualityvsAverageBaseQuality", "MappingQualityvsReadLength"} ELSE {})
  \cup (IF "percentIdentity" \in cols
        THEN {"PercentIdentityvsAverageBaseQuality", "PercentIdentityvsAlignedReadLength"}
        ELSE {})

\* The names of the plots main holds.
PlotsMade == {plots[i].name : i \in DOMAIN plots}

\* C1: make_plots produces exactly the plot set of the dispatch table for the
\* columns of the table, the two mapQ scatters iff mapQ is present.
C1_ExactlyTheDispatchTable ==
  (pc = "make_report" /\ ~settings.barcoded) => PlotsMade = ExpectedPlots(datadf.cols)

\* The call the error main logged names, if the run ended in one.
Raised ==
  IF calls # <<>> /\ calls[Len(calls)].op = "error" THEN calls[Len(calls)].names[1] ELSE ""

\* C8: plots are independent: when the rendering call of one plot fails, or a
\* plot is absent, every other plot whose condition holds is still produced
\* and returned.
C8_OtherPlotsStillProduced ==
  (pc \in {"make_report", "crashed"} /\ ~settings.barcoded)
    => LET cs == DispatchedCalls(datadf, settings)
       IN  \A k \in DOMAIN cs : cs[k].name # Raised => cs[k].name \in PlotsMade

\* C8 as amended: the calls are not guarded.  When a call of make_plots
\* raises, no plot is returned and no report is written; when none raises,
\* the plots returned are those of the calls whose test holds, in order, so a
\* plot skipped for a missing column does not prevent the others.
C8_FailureAbortsAbsenceDoesNot ==
  ~settings.barcoded =>
    /\ pc = "crashed" => plots = <<>> /\ \A f \in files : f.writer # "make_report"
    /\ pc = "make_report" =>
         LET cs == DispatchedCalls(datadf, settings)
         IN  plots = [i \in DOMAIN cs |-> Artifact(cs[i])]

\* C8 witness: the length-vs-quality scatter failed on a table that has the
\* channel column, and the run crashed after the histogram was written.
C8_Witness ==
  /\ pc = "crashed" /\ ~settings.barcoded
  /\ Raised = "LengthvsQualityScatterPlot"
  /\ HasColumn(datadf, "channelIDs")
  /\ File("length_plots", settings.path) \in files

(***************************************************************************)
(* Claims about main.                                                       *)
(***************************************************************************)
\* Which filters a set of options enables.
EnabledFilters(o) ==
  <<o.alength, o.drop_outliers, o.maxlength # None, o.minqual # None, o.loglength,
    o.downsample # None>>

\* The files a run on the same source, user prefix and columns writes with
\* the filter options o2 when nothing fails.
OtherRunFiles(o2) ==
  UNION {{File("write_stats", r.s.path \o "NanoStats.txt"),
          File("make_report", r.s.path \o "NanoPlot-report.html")}
         \cup MakePlots(r.df, r.s, {}).written :
           r \in {q \in FilterData([cols |-> datadf.cols, data |-> <<>>],
                                   NewSettings(settings.source, o2, FALSE, settings.store,
                                               settings.raw, settings.prefix)) : ~q.err}}

\* C7: the filter prefix is in every output file name, so two runs with the
\* same directory, user prefix and columns but different enabled filters
\* write no file name in common (here: the run that is done, on a table with
\* reads, and any other run).
C7_NoSharedOutputNames ==
  (pc = "done" /\ ~settings.barcoded /\ NumReads(datadf) > 0)
    => \A o2 \in MainFilterOptions :
         EnabledFilters(o2) # EnabledFilters(settings) => files \cap OtherRunFiles(o2) = {}

\* The positions in the log of the calls of op.
CallsOf(op) == {i \in DOMAIN calls : calls[i].op = op}

\* The barcode values of the filtered table.
BarcodesOf(df) == {df.data[i]["barcode"] : i \in DOMAIN df.data}

\* The part of a plot's path after settings["path"].
PathTail(p, s) ==
  IF p.func \in {"length_plots", "time_plots"} THEN ""
  ELSE IF p.name \in {"LengthvsQualityScatterPlot", "MappingQualityvsReadLength"}
  THEN s.length_prefix \o p.name
  ELSE p.name

\* The plots of a barcoded run are under their barcode's path, and the
\* barcode statistics are written before any of them is dispatched.
NamespacedAndAfterStats ==
  /\ \A k \in DOMAIN plots :
       /\ plots[k].title \in BarcodesOf(datadf)
       /\ plots[k].path = PathJoin(settings.outdir, settings.prefix \o plots[k].title \o "_")
                          \o PathTail(plots[k], settings)
  /\ \A i \in CallsOf("make_plots") :
       \E j \in CallsOf("write_stats") : j < i /\ calls[j].names # <<>>

\* C9: with barcode splitting the whole load, filter, dispatch sequence runs
\* once per distinct barcode value, under a path namespaced by the barcode,
\* after the aggregate statistics file is written.
C9_WholeSequencePerBarcode ==
  (pc = "done" /\ settings.barcoded /\ BarcodesOf(datadf) # {})
    => LET n == Cardinality(BarcodesOf(datadf))
       IN  /\ Cardinality(CallsOf("get_input") \cup CallsOf("pickle.load")) = n
           /\ Cardinality(CallsOf("filter_data")) = n
           /\ Cardinality(CallsOf("make_plots")) = n
           /\ NamespacedAndAfterStats

\* C9 as amended: the table is loaded once and filtered once; only the slice
\* and the dispatch run once per distinct barcode value of the filtered
\* table, one after another, under the barcode's path and after the
\* aggregate statistics file.
C9_DispatchPerBarcode ==
  settings.barcoded =>
    /\ Cardinality(CallsOf("get_input") \cup CallsOf("pickle.load")) <= 1
    /\ Cardinality(CallsOf("filter_data")) <= 1
    /\ pc = "done" =>
         /\ Cardinality(CallsOf("get_input") \cup CallsOf("pickle.load")) = 1
         /\ Cardinality(CallsOf("filter_data")) = 1
         /\ Cardinality(CallsOf("make_plots")) = Cardinality(BarcodesOf(datadf))
         /\ {calls[i].names : i \in CallsOf("make_plots")}
              = {<<b>> : b \in BarcodesOf(datadf)}
         /\ \A i \in CallsOf("make_plots") :
              calls[i].datadfs = <<DOMAIN BarcodeSlice(datadf, calls[i].names[1]).data>>
         /\ NamespacedAndAfterStats

\* C9 witness: a barcoded run over two barcodes is done.
C9_Witness ==
  /\ pc = "done" /\ settings.barcoded
  /\ Cardinality(BarcodesOf(datadf)) = 2
  /\ Cardinality(CallsOf("make_plots")) = 2

RECURSIVE SumOfCounts(_)
SumOfCounts(slices) ==
  IF slices = <<>> THEN 0 ELSE Cardinality(Head(slices)) + SumOfCounts(Tail(slices))

\* The slices handed to the barcode statistics are one per barcode, pairwise
\* disjoint, and their row counts sum to the rows of the filtered table.
SlicesPartition ==
  \A j \in CallsOf("write_stats") :
    calls[j].names # <<>> =>
      LET names == calls[j].names
          slices == calls[j].datadfs
      IN  /\ {names[k] : k \in DOMAIN names} = BarcodesOf(datadf)
          /\ \A k \in DOMAIN names :
               slices[k] = {i \in DOMAIN datadf.data : datadf.data[i]["barcode"] = names[k]}
          /\ \A k, l \in DOMAIN slices : k # l => slices[k] \cap slices[l] = {}
          /\ SumOfCounts(slices) = NumReads(datadf)

\* The barcode whose plots were being made when the run crashed.
CrashedIn == calls[Len(calls) - 1].names

\* C10: each barcode gets its own slice, the slices are disjoint and their
\* counts sum to the table's, and a statistics file and a plot set are
\* produced for each barcode independently of the other barcodes.
C10_EachBarcodeIndependently ==
  (settings.barcoded /\ CallsOf("make_plots") # {} /\ pc \in {"done", "crashed"})
    => /\ SlicesPartition
       /\ \A b \in BarcodesOf(datadf) :
            (pc = "crashed" => <<b>> # CrashedIn)
              => \E k \in DOMAIN plots : plots[k].title = b

\* C10 as amended: the slices are one per barcode, pairwise disjoint, and
\* their counts sum to the filtered table's; the statistics go to one
\* aggregate file; the plot sets are made one barcode after another from the
\* barcode's own slice, every barcode has one when the run is done, and a
\* failure leaves the barcode it hit and the later ones without plots.
C10_SlicesPartitionPlotsInTurn ==
  (settings.barcoded /\ pc \in {"barcode_loop", "make_report", "done", "crashed"}
   /\ HasColumn(datadf, "barcode"))
    => /\ SlicesPartition
       /\ Cardinality({f \in files : f.writer = "write_stats"}) = 2
       /\ pc \in {"make_report", "done"} =>
            \A b \in BarcodesOf(datadf) :
              /\ \E k \in DOMAIN plots : plots[k].title = b
              /\ \E i \in CallsOf("make_plots") :
                   /\ calls[i].names = <<b>>
                   /\ calls[i].datadfs = <<DOMAIN BarcodeSlice(datadf, b).data>>
       /\ \A k \in DOMAIN barcodes :
            \A l \in DOMAIN plots : plots[l].title # barcodes[k]

\* C10 witness: a barcoded run over two reads of two barcodes is done.
C10_Witness ==
  /\ pc = "done" /\ settings.barcoded
  /\ NumReads(datadf) = 2
  /\ Cardinality(BarcodesOf(datadf)) = 2
  /\ Cardinality({plots[k].title : k \in DOMAIN plots}) = 2

(***************************************************************************)
(* Claims about filter_data with no filter, and about the length column.    *)
(***************************************************************************)
\* No filter option is given.
NoFilter(s) ==
  /\ ~s.alength /\ ~s.drop_outliers /\ ~s.loglength
  /\ s.maxlength = None /\ s.minqual = None /\ s.downsample = None

\* C11: with no filter enabled filter_data returns (it does not raise) a
\* table with the row count and the column set of its input, and so does
\* every application of filter_data to the table and settings it returned.
C11_NoFilterIdempotent ==
  [][(pc = "filter_data" /\ NoFilter(settings))
       => /\ pc' = "filtered"
          /\ NumReads(datadf') = NumReads(datadf)
          /\ datadf'.cols = datadf.cols
          /\ \A r \in FilterData(datadf', settings') :
               /\ ~r.err
               /\ NumReads(r.df) = NumReads(datadf)
               /\ r.df.cols = datadf.cols]_vars

\* C11 witness: filter_data has returned a table with reads in a run with no
\* filter.
C11_Witness ==
  /\ pc = "filtered" /\ NoFilter(settings)
  /\ NumReads(datadf) > 0
  /\ Len(calls) = 1 /\ calls[1].op = "filter_data"
  /\ settings.lengths_pointer = "lengths" /\ settings.length_prefix = ""

\* The tokens filter_data recorded in the frame r.
Tokens(r) == {r.length_prefix_list[i] : i \in DOMAIN r.length_prefix_list}

\* The frames of filter_data that give the step from the current state.
ReturnedFrames ==
  {r \in FilterData(datadf, settings) : ~r.err /\ r.s = settings' /\ r.df = datadf'}

\* C12: whenever the aligned length is requested and the table carries the
\* aligned_lengths column (a bam table, or one restored with --pickle),
\* filter_data selects the aligned-length column and records the Aligned_
\* token; in every other case it selects the sequenced length and records no
\* Aligned_ token.
C12_AlignedWheneverTableSupportsIt ==
  [][(pc = "filter_data" /\ pc' = "filtered" /\ NumReads(datadf) > 0)
       => LET aligned == settings.alength /\ HasColumn(datadf, "aligned_lengths")
          IN  /\ SelectedLengths(settings') =
                   (IF aligned THEN "aligned_lengths" ELSE "lengths")
              /\ \A r \in ReturnedFrames : aligned <=> "Aligned_" \in Tokens(r)]_vars

\* C12 as amended: the aligned-length column is selected and the Aligned_
\* token recorded exactly when the aligned length is requested and the run's
\* source is --bam itself (settings["bam"] is set); in every other case,
\* a table restored with --pickle that carries aligned_lengths included, the
\* sequenced length is selected and no Aligned_ token is recorded.  The
\* pointer is the selected column or, after the log transform, its log_
\* column, and the selection is made even when a later step raises.
C12_AlignedOnlyForBamSource ==
  [][(pc = "filter_data" /\ pc' # "filter_data")
       => LET aligned == settings.alength /\ SettingsBam(settings)
              sel     == IF aligned THEN "aligned_lengths" ELSE "lengths"
          IN  /\ settings'.lengths_pointer \in {sel, "log_" \o sel}
              /\ pc' = "filtered" =>
                   /\ ReturnedFrames # {}
                   /\ \A r \in ReturnedFrames : aligned <=> "Aligned_" \in Tokens(r)]_vars

\* C12 witness: filter_data has returned, for a bam source with the aligned
\* length requested, a table with reads and the aligned-length column
\* selected.
C12_Witness ==
  /\ pc = "filtered"
  /\ settings.alength /\ SettingsBam(settings)
  /\ HasColumn(datadf, "aligned_lengths") /\ NumReads(datadf) > 0
  /\ SelectedLengths(settings) = "aligned_lengths"

====
